---- MODULE Spec2Model ----
(***************************************************************************)
(* A model of gltfio's FAssetLoader (libs/gltfio/src/AssetLoader.cpp):     *)
(* the conversion of a parsed glTF document into entities, renderables,    *)
(* shared vertex/index buffers, material instances, skins and buffer       *)
(* binding descriptors.                                                    *)
(*                                                                         *)
(* One loader is modelled.  A call of createAsset is split into the steps  *)
(* BeginImport, CreateEntity (once per traversed node), CheckError,        *)
(* ImportSkins, BuildTargets and Finish.  createRenderable,                *)
(* createPrimitive, createMaterialInstance and importSkinningData are      *)
(* operators that take and return the loader state they touch.             *)
(***************************************************************************)
EXTENDS Integers, Sequences, FiniteSets, TLC

VARIABLES
    source,              \* mMaterials->getSource(): the provider's strategy
    pc,                  \* position of the loader's caller / of createAsset
    calls,               \* number of create calls made on this loader
    srcAsset,            \* the cgltf_data being imported
    stack,               \* pending createEntity calls: <<node, parent entity>>
    mResult,             \* FAssetLoader::mResult (NullResult = nullptr)
    mMatInstanceCache,   \* FAssetLoader::mMatInstanceCache
    mMeshCache,          \* FAssetLoader::mMeshCache
    mError,              \* FAssetLoader::mError
    created,             \* objects created so far in this call, per kind
    mTransformManager,   \* entity -> world transform (this call's entities)
    mRenderableManager,  \* entity -> renderable built by RenderableManager::Builder
    providerCalls,       \* requests made to MaterialProvider::createMaterialInstance
    primitiveCalls,      \* createPrimitive invocations of this call (document primitive, result)
    materialCalls,       \* createMaterialInstance invocations of this call (arguments, results)
    returned,            \* value the create call returned to the caller
    failed               \* whether traversal of the latest import ended with mError set

vars == <<source, pc, calls, srcAsset, stack, mResult, mMatInstanceCache, mMeshCache,
          mError, created, mTransformManager, mRenderableManager, providerCalls,
          primitiveCalls, materialCalls, returned, failed>>

----------------------------------------------------------------------------
(* Bounds of the model. *)

MaxImports == 2      \* create calls made on the loader
MaxSkinNodes == 3    \* nodes of the documents that exercise scenes and skins
MaxBoxNodes == 2     \* nodes of the documents that exercise bounding boxes
MaxMatPrims == 3     \* primitives of the documents that exercise materials
MaxJoints == 2       \* joints declared by a skin
MaxTreeNodes == 3    \* nodes of the documents that exercise traversal

----------------------------------------------------------------------------
(* Small helpers. *)

Min2(a, b) == IF a <= b THEN a ELSE b
Max2(a, b) == IF a >= b THEN a ELSE b

RECURSIVE SetToSeq(_)
SetToSeq(S) ==
    IF S = {} THEN <<>>
    ELSE LET x == CHOOSE y \in S : \A z \in S : y <= z
         IN  <<x>> \o SetToSeq(S \ {x})

SeqRange(s) == { s[i] : i \in 1..Len(s) }

\* Sequences over S of length at most n.
SeqsUpTo(S, n) == UNION { [1..k -> S] : k \in 0..n }

----------------------------------------------------------------------------
(* float3, mat4f and Aabb.  Coordinates are integers; a transform is the    *)
(* upper 3x4 part of a mat4f (the loader only ever reads .xyz of a product  *)
(* with a point whose w is 1).                                              *)

FltMax == 1000

vmin(a, b) == <<Min2(a[1], b[1]), Min2(a[2], b[2]), Min2(a[3], b[3])>>
vmax(a, b) == <<Max2(a[1], b[1]), Max2(a[2], b[2]), Max2(a[3], b[3])>>

\* A default-constructed Aabb: the empty box.
EmptyAabb == [min |-> <<FltMax, FltMax, FltMax>>, max |-> <<-FltMax, -FltMax, -FltMax>>]

\* rows r1, r2, r3 of the linear part and the translation t
Mat(r1, r2, r3, t) == [r |-> <<r1, r2, r3>>, t |-> t]

Identity == Mat(<<1, 0, 0>>, <<0, 1, 0>>, <<0, 0, 1>>, <<0, 0, 0>>)

Dot(a, b) == a[1] * b[1] + a[2] * b[2] + a[3] * b[3]

\* (m * float4(p, 1)).xyz
MulPoint(m, p) == <<Dot(m.r[1], p) + m.t[1], Dot(m.r[2], p) + m.t[2], Dot(m.r[3], p) + m.t[3]>>

Col(m, j) == <<m.r[1][j], m.r[2][j], m.r[3][j]>>

\* a * b: the world transform of a child whose parent's world transform is a
MulMat(a, b) ==
    Mat(<<Dot(a.r[1], Col(b, 1)), Dot(a.r[1], Col(b, 2)), Dot(a.r[1], Col(b, 3))>>,
        <<Dot(a.r[2], Col(b, 1)), Dot(a.r[2], Col(b, 2)), Dot(a.r[2], Col(b, 3))>>,
        <<Dot(a.r[3], Col(b, 1)), Dot(a.r[3], Col(b, 2)), Dot(a.r[3], Col(b, 3))>>,
        MulPoint(a, b.t))

----------------------------------------------------------------------------
(* The parsed document (cgltf_data).  Nodes, meshes, materials and skins    *)
(* are named by their 1-based position in the document's arrays; 0 is a     *)
(* null pointer.                                                            *)
(*   node      [children, mesh, skin, matrix]                               *)
(*   primitive [typeOk, material, indices, indexCount, attributes, min, max]*)
(*   attribute [type, index, elemOk, sparse, count]                         *)
(*   material  [texcoords]: the texcoord sets its textures read, in the     *)
(*             order the provider looks at them                             *)
(*   skin      the sequence of its joint nodes                              *)

Attr(type, index) ==
    [type |-> type, index |-> index, elemOk |-> TRUE, sparse |-> FALSE, count |-> 3]

Position == Attr("position", 0)
Normal == Attr("normal", 0)
Tangent == Attr("tangent", 0)
Color == Attr("color", 0)
Texcoord(i) == Attr("texcoord", i)

\* The streams a primitive may carry besides its positions, in document order.
OptionalAttrs == <<Normal, Tangent, Texcoord(0), Texcoord(1), Texcoord(2), Color>>

RECURSIVE Pick(_, _, _)
Pick(s, keep, i) ==
    IF i > Len(s) THEN <<>>
    ELSE (IF i \in keep THEN <<s[i]>> ELSE <<>>) \o Pick(s, keep, i + 1)

CleanAttrLists == { <<Position>> \o Pick(OptionalAttrs, keep, 1) : keep \in SUBSET (1..Len(OptionalAttrs)) }

\* One stream of the list made unusable: a sparse accessor, an element type
\* getElementType rejects, or a semantic getVertexAttrType rejects.
Damaged(al, i, kind) ==
    [al EXCEPT ![i] =
        CASE kind = "sparse"   -> [@ EXCEPT !.sparse = TRUE]
          [] kind = "elem"     -> [@ EXCEPT !.elemOk = FALSE]
          [] kind = "semantic" -> [@ EXCEPT !.type = "invalid"]]

DamageKinds == {"sparse", "elem", "semantic"}

AttrLists ==
    CleanAttrLists \cup
    { Damaged(al, i, k) : <<al, i, k>> \in
        { t \in CleanAttrLists \X (1..(1 + Len(OptionalAttrs))) \X DamageKinds : t[2] <= Len(t[1]) } }

IndexKinds == {"none", "u8", "u16", "badtype", "sparse"}

UnitBox == [min |-> <<0, 0, 0>>, max |-> <<1, 2, 3>>]

Prim(material, indices, attributes, box) ==
    [typeOk |-> TRUE, material |-> material, indices |-> indices, indexCount |-> 6,
     attributes |-> attributes, min |-> box.min, max |-> box.max]

Node(children, mesh, skin, matrix) ==
    [children |-> children, mesh |-> mesh, skin |-> skin, matrix |-> matrix]

\* Materials 1 and 2 are two objects with the same content.
Materials ==
    << [texcoords |-> <<0>>],
       [texcoords |-> <<0>>],
       [texcoords |-> <<0, 1, 2>>],
       [texcoords |-> <<1>>] >>

Doc(nodes, scenes, scene, meshes, skins) ==
    [nodes |-> nodes, scenes |-> scenes, scene |-> scene, meshes |-> meshes,
     materials |-> Materials, skins |-> skins]

\* A forest given by a parent function: par[n] is the parent of n, 0 for a
\* root of the first scene, -1 for a root of the second scene.
ChildrenOf(par, p) == SetToSeq({ c \in DOMAIN par : par[c] = p })

ScenesOf(par) ==
    <<ChildrenOf(par, 0)>> \o
    (IF \E c \in DOMAIN par : par[c] = -1 THEN <<ChildrenOf(par, -1)>> ELSE <<>>)

NodesOf(par, meshOf, skinOf, matrixOf) ==
    [n \in DOMAIN par |-> Node(ChildrenOf(par, n), meshOf[n], skinOf[n], matrixOf[n])]

\* Parent functions: every node hangs below an earlier node or is a root of
\* the first scene.
Trees(n) == { par \in [1..n -> 0..n] : \A c \in 1..n : par[c] < c }

\* Parent functions: every node hangs below its predecessor or is a root of
\* the second scene (node 1: a root of the first or of the second scene).
Chains(n) == { par \in [1..n -> -1..n] : \A c \in 1..n : par[c] \in {c - 1, -1} }

Const(S, v) == [x \in S |-> v]

Reverse(s) == [i \in 1..Len(s) |-> s[Len(s) + 1 - i]]

\* Local transforms: the identity, a quarter turn about z with a translation,
\* and a mirroring non-uniform scale.
Transforms ==
    { Identity,
      Mat(<<0, -1, 0>>, <<1, 0, 0>>, <<0, 0, 1>>, <<2, 0, -1>>),
      Mat(<<-1, 0, 0>>, <<0, 2, 0>>, <<0, 0, 1>>, <<0, 1, 0>>) }

\* --- documents that exercise the vertex layout: two nodes share one mesh of
\* one primitive.
SharedMeshDoc(prims) ==
    Doc(<<Node(<<2>>, 1, 0, Identity), Node(<<>>, 1, 0, Identity)>>, << <<1>> >>, 0,
        <<prims>>, <<>>)

AttrDocs ==
    { SharedMeshDoc(<<Prim(m, "u16", al, UnitBox)>>) : al \in AttrLists, m \in {0, 1, 3, 4} }

IndexDocs ==
    { SharedMeshDoc(<<Prim(0, ix, al, UnitBox)>>) :
        ix \in IndexKinds, al \in {<<Position>>, <<Position, Normal, Texcoord(0)>>} }
    \cup
    { SharedMeshDoc(<<[Prim(0, ix, <<Position, Normal>>, UnitBox) EXCEPT !.typeOk = FALSE]>>) :
        ix \in {"none", "u16"} }

\* --- documents that exercise the material cache: one node, one mesh whose
\* primitives draw their material from {none, 1, 2} with or without colors.
MatPrims ==
    { Prim(m, "u16", IF vc THEN <<Position, Color>> ELSE <<Position>>, UnitBox) :
        m \in 0..2, vc \in BOOLEAN }

MatDocs ==
    { Doc(<<Node(<<>>, 1, 0, Identity)>>, << <<1>> >>, 0, <<prims>>, <<>>) :
        prims \in UNION { [1..k -> MatPrims] : k \in 1..MaxMatPrims } }

\* --- documents that exercise bounding boxes: a tree whose nodes carry no
\* mesh, mesh 1 (one primitive) or mesh 2 (two primitives), each under one of
\* the local transforms.
BoxMeshes ==
    << <<Prim(0, "u16", <<Position>>, UnitBox)>>,
       <<Prim(0, "u16", <<Position>>, [min |-> <<-1, 0, 0>>, max |-> <<0, 1, 1>>]),
         Prim(0, "none", <<Position, Normal>>, [min |-> <<2, 2, 2>>, max |-> <<3, 4, 3>>])>> >>

BoxDocs ==
    { Doc(NodesOf(par, meshOf, Const(1..MaxBoxNodes, 0), matrixOf), ScenesOf(par), 0,
          BoxMeshes, <<>>) :
        par \in Trees(MaxBoxNodes),
        meshOf \in [1..MaxBoxNodes -> 0..2],
        matrixOf \in [1..MaxBoxNodes -> Transforms] }

\* --- documents that exercise traversal: a tree whose nodes carry no mesh, a
\* mesh that builds, or a mesh whose second primitive cannot be built.
TreeMeshes ==
    << <<Prim(0, "u16", <<Position>>, UnitBox)>>,
       <<Prim(1, "u16", <<Position, Texcoord(0)>>, UnitBox),
         Prim(0, "u16", Damaged(<<Position, Color>>, 2, "sparse"), UnitBox)>> >>

TreeDocs ==
    { Doc(NodesOf(par, meshOf, Const(1..MaxTreeNodes, 0), Const(1..MaxTreeNodes, Identity)),
          ScenesOf(par), 0, TreeMeshes, <<>>) :
        par \in Trees(MaxTreeNodes), meshOf \in [1..MaxTreeNodes -> 0..2] }

\* --- documents that exercise skins: chains of nodes over one or two scenes,
\* two skins (the second lists the joints of the first in reverse), and nodes
\* that reference a skin.
SkinTargets == {{}} \cup { {n} : n \in 1..MaxSkinNodes } \cup { 1..MaxSkinNodes }

SkinDocs ==
    { Doc(NodesOf(par, Const(1..MaxSkinNodes, 0),
                  [n \in 1..MaxSkinNodes |-> IF n \in targets THEN 1 + (n % 2) ELSE 0],
                  Const(1..MaxSkinNodes, Identity)),
          ScenesOf(par), 0, <<>>, <<joints, Reverse(joints)>>) :
        par \in Chains(MaxSkinNodes),
        joints \in SeqsUpTo(1..MaxSkinNodes, MaxJoints),
        targets \in SkinTargets }

\* --- documents that exercise the choice of the scene: the default scene
\* pointer is null or names one of the scenes; or the document has no scene.
SceneChoiceDocs ==
    { Doc(NodesOf(par, Const(1..MaxSkinNodes, 0), Const(1..MaxSkinNodes, 0),
                  Const(1..MaxSkinNodes, Identity)),
          ScenesOf(par), sc, <<>>, <<>>) :
        <<par, sc>> \in { t \in Chains(MaxSkinNodes) \X (0..2) : t[2] <= Len(ScenesOf(t[1])) } }

NoSceneDocs ==
    { Doc(<<Node(<<>>, m, 0, Identity)>>, <<>>, 0, BoxMeshes, skins) :
        m \in 0..1, skins \in {<<>>, << <<1>> >>} }

\* --- documents whose primitive has no POSITION stream (its min and max are
\* then never read): only normals, or normals and a texcoord set.
NoPositionDocs ==
    { SharedMeshDoc(<<Prim(m, ix, al, EmptyAabb)>>) :
        m \in {0, 4}, ix \in {"none", "u16"}, al \in {<<Normal>>, <<Normal, Texcoord(0)>>} }

Documents ==
    AttrDocs \cup IndexDocs \cup MatDocs \cup BoxDocs \cup TreeDocs \cup SkinDocs
    \cup SceneChoiceDocs \cup NoSceneDocs \cup NoPositionDocs

----------------------------------------------------------------------------
(* Objects the loader creates.  Every object created during one create      *)
(* call is named by the call and its rank among the objects of its kind     *)
(* created in that call, so that no two objects ever share a name.          *)

HandleOf(call, k) == [call |-> call, n |-> k]
Handle(k) == HandleOf(calls, k)

NullEntity == [call |-> 0, n |-> 0]     \* a default-constructed utils::Entity
\* Null pointers and absent values are records without the fields of the objects.
NoBuffer == [null |-> TRUE]
NullResult == [null |-> TRUE]
NoDocument == [none |-> TRUE]

\* new FFilamentAsset(mEngine)
NewAsset ==
    [root |-> NullEntity, entities |-> <<>>, nodeMap |-> <<>>, skins |-> <<>>,
     boundingBox |-> EmptyAabb, bufferBindings |-> <<>>, indexBuffers |-> <<>>,
     vertexBuffers |-> <<>>, materialInstances |-> <<>>, sharedSourceAsset |-> FALSE]

\* The state createEntity and its callees read and write, threaded through
\* the operators below.
Context ==
    [res |-> mResult, matCache |-> mMatInstanceCache, meshCache |-> mMeshCache,
     err |-> mError, created |-> created, tm |-> mTransformManager,
     rm |-> mRenderableManager, provider |-> providerCalls, prims |-> primitiveCalls,
     mats |-> materialCalls]

NoneCreated == [entities |-> 0, vertexBuffers |-> 0, indexBuffers |-> 0, instances |-> 0]

----------------------------------------------------------------------------
(* MaterialProvider (an injected collaborator): creates a fresh instance on *)
(* every request and fixes the UvMap, keeping the first two distinct        *)
(* texcoord sets the material's textures read.                              *)

UvSlots == 0..7

RECURSIVE AssignUv(_, _, _)
AssignUv(texcoords, i, uvmap) ==
    IF i > Len(texcoords) THEN uvmap
    ELSE LET t == texcoords[i]
             used == { uvmap[j] : j \in UvSlots } \ {"UNUSED"}
         IN  AssignUv(texcoords, i + 1,
                 IF uvmap[t] # "UNUSED" \/ Cardinality(used) >= 2 THEN uvmap
                 ELSE [uvmap EXCEPT ![t] = IF "UV0" \in used THEN "UV1" ELSE "UV0"])

EmptyUvMap == [j \in UvSlots |-> "UNUSED"]     \* UvMap uvmap {}

ProviderUvMap(inputMat) ==
    IF inputMat = 0 THEN EmptyUvMap
    ELSE AssignUv(srcAsset.materials[inputMat].texcoords, 1, EmptyUvMap)

\* mMaterials->createMaterialInstance(&matkey, uvmap, name)
ProviderCreate(c, inputMat, hasVertexColors) ==
    LET mi == [id |-> Handle(c.created.instances + 1),
               material |-> inputMat,     \* 0: the request named "default"
               hasVertexColors |-> hasVertexColors]
    IN  [c |-> [c EXCEPT !.created.instances = @ + 1,
                         !.provider = Append(@, mi)],
         mi |-> mi, uvmap |-> ProviderUvMap(inputMat)]

----------------------------------------------------------------------------
(* FAssetLoader::createMaterialInstance *)

\* (intptr_t) inputMat: material objects are elements of an array of structs,
\* so their addresses are multiples of the struct's alignment; null is 0.
MatAddr(inputMat) == 8 * inputMat

XorBit(a, bit) == IF ~bit THEN a ELSE IF a % 2 = 0 THEN a + 1 ELSE a - 1

MatCacheKey_IgnoresColor(inputMat, vertexColor) == MatAddr(inputMat)

MatCacheKey(inputMat, vertexColor) == XorBit(MatAddr(inputMat), vertexColor)

MatCacheStore_Nothing(cache, key, entry) == cache

\* mMatInstanceCache[key] = entry
MatCacheStore(cache, key, entry) ==
    [k \in DOMAIN cache \cup {key} |-> IF k = key THEN entry ELSE cache[k]]

MatCacheHit_StaleUvMap(entry) == [mi |-> entry.instance, uvmap |-> EmptyUvMap]

\* *uvmap = iter->second.uvmap; return iter->second.instance;
MatCacheHit(entry) == [mi |-> entry.instance, uvmap |-> entry.uvmap]

\* mResult->mMaterialInstances.push_back(mi); mMatInstanceCache[key] = {mi, *uvmap};
\* p is what the provider returned: [c, mi, uvmap].
StoreInstance(p, key) ==
    [c |-> [p.c EXCEPT !.res.materialInstances = Append(@, p.mi),
                       !.matCache = MatCacheStore(@, key, [instance |-> p.mi, uvmap |-> p.uvmap])],
     mi |-> p.mi, uvmap |-> p.uvmap]

\* A cache miss: the default material is non-lit black (matkey {.unlit = true})
\* and is stored under key 0.
MaterialInstanceNew(c, inputMat, vertexColor, key) ==
    IF inputMat = 0
    THEN StoreInstance(ProviderCreate(c, 0, FALSE), 0)
    ELSE StoreInstance(ProviderCreate(c, inputMat, vertexColor), key)

\* The body of createMaterialInstance with its cache key: [c, mi, uvmap].
MaterialInstanceFor(c, inputMat, vertexColor, key) ==
    IF key \in DOMAIN c.matCache
    THEN [c |-> c] @@ MatCacheHit(c.matCache[key])
    ELSE MaterialInstanceNew(c, inputMat, vertexColor, key)

\* The call recorded with what it returned.
RecordMaterialCall(inputMat, vertexColor, r) ==
    [r EXCEPT !.c.mats = Append(@, [inputMat |-> inputMat, vertexColor |-> vertexColor,
                                    instance |-> r.mi, uvmap |-> r.uvmap])]

createMaterialInstance(c, inputMat, vertexColor) ==
    RecordMaterialCall(inputMat, vertexColor,
        MaterialInstanceFor(c, inputMat, vertexColor, MatCacheKey(inputMat, vertexColor)))

\* FAssetLoader::primitiveHasVertexColor
primitiveHasVertexColor(inPrim) ==
    \E slot \in 1..Len(inPrim.attributes) : inPrim.attributes[slot].type = "color"

----------------------------------------------------------------------------
(* FAssetLoader::createPrimitive *)

\* struct Primitive, as default-constructed by mMeshCache[mesh].resize(nprims)
NullPrimitive == [vertices |-> NoBuffer, indices |-> NoBuffer, aabb |-> EmptyAabb]

Put(f, k, v) == [x \in DOMAIN f \cup {k} |-> IF x = k THEN v ELSE f[x]]

\* A BufferBinding with the members a designated initializer leaves out.
\* stream names the accessor whose bytes the binding refers to: 0 the index
\* accessor, i >= 1 the primitive's i-th attribute, -1 none (no uri, no data).
BufferBinding ==
    [stream |-> -1, sparseSource |-> FALSE, bufferIndex |-> 0,
     vertexBuffer |-> NoBuffer, indexBuffer |-> NoBuffer,
     convertBytesToShorts |-> FALSE, generateTrivialIndices |-> FALSE,
     generateDummyData |-> FALSE, generateTangents |-> FALSE]

\* getIndexType
getIndexType(indices) == indices # "badtype"

\* getVertexAttrType: false for cgltf_attribute_type_invalid
getVertexAttrType(type) == type # "invalid"

VertexAttr(type) ==
    CASE type = "position" -> "POSITION"
      [] type = "color"    -> "COLOR"
      [] type = "texcoord" -> "UV0"
      [] type = "joints"   -> "BONE_INDICES"
      [] type = "weights"  -> "BONE_WEIGHTS"

\* The index buffer and its binding (the first part of createPrimitive);
\* the index type has been accepted.
IndexBinding(inPrim, indices) ==
    IF inPrim.indices # "none"
    THEN [BufferBinding EXCEPT !.stream = 0,
                               !.sparseSource = (inPrim.indices = "sparse"),
                               !.indexBuffer = indices,
                               !.convertBytesToShorts = (inPrim.indices = "u8")]
    ELSE [BufferBinding EXCEPT !.indexBuffer = indices, !.generateTrivialIndices = TRUE]

BuildIndexBuffer(c, inPrim) ==
    [id |-> Handle(c.created.indexBuffers + 1),
     indexCount |-> IF inPrim.indices # "none" THEN inPrim.indexCount
                    ELSE inPrim.attributes[1].count,
     indexType |-> IF inPrim.indices \in {"none"} THEN "UINT" ELSE inPrim.indices]

\* The state of the first loop over the attributes.
LayoutStart(outPrim) ==
    [slot |-> 0, hasUv0 |-> FALSE, hasUv1 |-> FALSE, hasVertexColor |-> FALSE,
     vertexCount |-> 0, aabb |-> outPrim.aabb, attributes |-> <<>>, failed |-> FALSE]

\* One iteration of the first loop: attribute aindex of inPrim.
LayoutStep(inPrim, uvmap, aindex, st) ==
    LET a == inPrim.attributes[aindex]
        color == [st EXCEPT !.hasVertexColor = @ \/ (a.type = "color")]
        semantic == IF a.type = "texcoord"
                    THEN (IF uvmap[a.index] = "UV1" THEN "UV1" ELSE "UV0")
                    ELSE VertexAttr(a.type)
        uv == IF a.type # "texcoord" THEN color
              ELSE IF uvmap[a.index] = "UV0" THEN [color EXCEPT !.hasUv0 = TRUE]
              ELSE [color EXCEPT !.hasUv1 = TRUE]
        counted == [uv EXCEPT !.vertexCount = a.count]
        boxed == IF a.type = "position"
                 THEN [counted EXCEPT !.aabb = [min |-> vmin(@.min, inPrim.min),
                                                max |-> vmax(@.max, inPrim.max)]]
                 ELSE counted
    IN  IF a.type = "normal"
        THEN [st EXCEPT !.attributes = Put(@, "TANGENTS", [bufferIndex |-> st.slot, stream |-> aindex]),
                        !.slot = @ + 1]
        ELSE IF a.type = "tangent" THEN st
        ELSE IF ~getVertexAttrType(a.type) THEN [color EXCEPT !.failed = TRUE]
        ELSE IF a.type = "texcoord" /\ uvmap[a.index] = "UNUSED" THEN color
        ELSE IF ~a.elemOk THEN [boxed EXCEPT !.failed = TRUE]
        ELSE IF a.sparse THEN [boxed EXCEPT !.failed = TRUE]
        ELSE [boxed EXCEPT !.attributes = Put(@, semantic, [bufferIndex |-> st.slot, stream |-> aindex]),
                           !.slot = @ + 1]

RECURSIVE LayoutPass(_, _, _, _)
LayoutPass(inPrim, uvmap, aindex, st) ==
    IF aindex > Len(inPrim.attributes) \/ st.failed THEN st
    ELSE LayoutPass(inPrim, uvmap, aindex + 1, LayoutStep(inPrim, uvmap, aindex, st))

DummyAttributes_ColorOnly(st) ==
    IF source = "LOAD_UBERSHADERS" /\ ~st.hasVertexColor THEN {"COLOR"} ELSE {}

\* The dummy attributes of the ubershader strategy, all declared on buffer
\* `slot`; needsDummyData is whether any was declared.
DummyAttributes(st) ==
    IF source # "LOAD_UBERSHADERS" THEN {}
    ELSE (IF ~st.hasUv0 THEN {"UV0"} ELSE {}) \cup
         (IF ~st.hasUv1 THEN {"UV1"} ELSE {}) \cup
         (IF ~st.hasVertexColor THEN {"COLOR"} ELSE {})

RECURSIVE DeclareAll(_, _, _)
DeclareAll(attributes, semantics, slot) ==
    IF semantics = {} THEN attributes
    ELSE LET x == CHOOSE y \in semantics : TRUE
         IN  DeclareAll(Put(attributes, x, [bufferIndex |-> slot, stream |-> -1]),
                        semantics \ {x}, slot)

SkipsDescriptor_KeepsUnused(attribute, uvmap) == attribute.type = "tangent"

\* The streams the second loop passes over.
SkipsDescriptor(attribute, uvmap) ==
    \/ attribute.type = "tangent"
    \/ attribute.type = "texcoord" /\ uvmap[attribute.index] = "UNUSED"

\* The second loop over the attributes: st is [slot, bindings].
RECURSIVE DescriptorPass(_, _, _, _, _)
DescriptorPass(inPrim, uvmap, vertices, aindex, st) ==
    IF aindex > Len(inPrim.attributes) THEN st
    ELSE LET a == inPrim.attributes[aindex]
             b == [BufferBinding EXCEPT !.stream = aindex, !.sparseSource = a.sparse,
                                        !.bufferIndex = st.slot, !.vertexBuffer = vertices,
                                        !.generateTangents = (a.type = "normal")]
         IN  DescriptorPass(inPrim, uvmap, vertices, aindex + 1,
                 IF SkipsDescriptor(a, uvmap) THEN st
                 ELSE [slot |-> st.slot + 1, bindings |-> Append(st.bindings, b)])

\* A call of createPrimitive recorded: primRef names the document primitive,
\* <<mesh, position within the mesh>>.
RecordPrimitiveCall(c, primRef, ok, assertHolds) ==
    [c EXCEPT !.prims = Append(@, [prim |-> primRef, ok |-> ok, assertHolds |-> assertHolds])]

\* The index buffer created and bound.
WithIndexBuffer(c, inPrim, indices) ==
    [c EXCEPT !.created.indexBuffers = @ + 1,
              !.res.bufferBindings = Append(@, IndexBinding(inPrim, indices)),
              !.res.indexBuffers = Append(@, indices)]

\* The vertex buffer built from the layout the first loop found.
BuildVertexBuffer(c, lay, dummies) ==
    [id |-> Handle(c.created.vertexBuffers + 1),
     vertexCount |-> lay.vertexCount,
     bufferCount |-> lay.slot + (IF dummies # {} THEN 1 ELSE 0),
     attributes |-> DeclareAll(lay.attributes, dummies, lay.slot)]

\* The binding of the dummy buffer, if there is one.
DummyBinding(vertices, slot, needsDummyData) ==
    IF needsDummyData
    THEN << [BufferBinding EXCEPT !.bufferIndex = slot, !.vertexBuffer = vertices,
                                  !.generateDummyData = TRUE] >>
    ELSE <<>>

\* The end of createPrimitive: desc is what the second loop left, [slot, bindings].
BindVertexBuffer(c, primRef, indices, lay, vertices, needsDummyData, desc) ==
    [c |-> RecordPrimitiveCall(
               [c EXCEPT !.created.vertexBuffers = @ + 1,
                         !.res.vertexBuffers = Append(@, vertices),
                         !.res.bufferBindings =
                             @ \o desc.bindings \o DummyBinding(vertices, desc.slot, needsDummyData)],
               primRef, TRUE,
               vertices.bufferCount = desc.slot + (IF needsDummyData THEN 1 ELSE 0)),
     ok |-> TRUE,
     outPrim |-> [vertices |-> vertices, indices |-> indices, aabb |-> lay.aabb]]

\* createPrimitive after the first loop; vertices is the buffer built from lay.
DescribeVertexBuffer(c, inPrim, uvmap, primRef, indices, lay, vertices, needsDummyData) ==
    BindVertexBuffer(c, primRef, indices, lay, vertices, needsDummyData,
        DescriptorPass(inPrim, uvmap, vertices, 1, [slot |-> 0, bindings |-> <<>>]))

\* createPrimitive from the first loop on: c holds the index buffer already.
VertexPart(c, inPrim, outPrim, uvmap, primRef, indices, lay) ==
    IF lay.failed
    THEN [c |-> RecordPrimitiveCall(c, primRef, FALSE, TRUE),
          ok |-> FALSE, outPrim |-> [outPrim EXCEPT !.aabb = lay.aabb]]
    ELSE DescribeVertexBuffer(c, inPrim, uvmap, primRef, indices, lay,
             BuildVertexBuffer(c, lay, DummyAttributes(lay)), DummyAttributes(lay) # {})

\* createPrimitive once the index type is accepted.
IndexPart(c, inPrim, outPrim, uvmap, primRef, indices) ==
    VertexPart(WithIndexBuffer(c, inPrim, indices), inPrim, outPrim, uvmap, primRef, indices,
               LayoutPass(inPrim, uvmap, 1, LayoutStart(outPrim)))

\* [c, ok, outPrim]
createPrimitive(c, inPrim, outPrim, uvmap, primRef) ==
    IF inPrim.indices # "none" /\ ~getIndexType(inPrim.indices)
    THEN [c |-> RecordPrimitiveCall(c, primRef, FALSE, TRUE), ok |-> FALSE, outPrim |-> outPrim]
    ELSE IndexPart(c, inPrim, outPrim, uvmap, primRef, BuildIndexBuffer(c, inPrim))

----------------------------------------------------------------------------
(* FAssetLoader::createRenderable *)

PrimitiveTypes == {"POINTS", "LINES", "TRIANGLES"}

NeedsBuild_Always(outputPrim) == TRUE

\* !outputPrim->vertices
NeedsBuild(outputPrim) == outputPrim.vertices = NoBuffer

Corners(aabb) ==
    { <<x, y, z>> : x \in {aabb.min[1], aabb.max[1]}, y \in {aabb.min[2], aabb.max[2]},
                    z \in {aabb.min[3], aabb.max[3]} }

BoundsOf_MinMaxOnly(worldTransform, aabb) ==
    [min |-> MulPoint(worldTransform, aabb.min), max |-> MulPoint(worldTransform, aabb.max)]

\* Transform all eight corners of the bounding box and find the new AABB.
BoundsOf(worldTransform, aabb) ==
    LET pts == { MulPoint(worldTransform, p) : p \in Corners(aabb) }
        lo(i) == CHOOSE v \in { p[i] : p \in pts } : \A p \in pts : v <= p[i]
        hi(i) == CHOOSE v \in { p[i] : p \in pts } : \A p \in pts : v >= p[i]
    IN  [min |-> <<lo(1), lo(2), lo(3)>>, max |-> <<hi(1), hi(2), hi(3)>>]

Union(a, b) == [min |-> vmin(a.min, b.min), max |-> vmax(a.max, b.max)]

\* if (!outputPrim->vertices && !createPrimitive(inputPrim, outputPrim, uvmap)):
\* [c, ok, outPrim], outPrim being the cached primitive after the call.
BuildIfNeeded(c, mesh, index, outputPrim, uvmap) ==
    IF NeedsBuild(outputPrim)
    THEN createPrimitive(c, srcAsset.meshes[mesh][index], outputPrim, uvmap, <<mesh, index>>)
    ELSE [c |-> c, ok |-> TRUE, outPrim |-> outputPrim]

\* The rest of one iteration: built is what BuildIfNeeded returned.
AddPrimitive(mesh, index, primType, st, built) ==
    IF ~built.ok
    THEN [st EXCEPT !.c = [built.c EXCEPT !.meshCache[mesh][index] = built.outPrim,
                                          !.err = TRUE]]
    ELSE [st EXCEPT !.c = [built.c EXCEPT !.meshCache[mesh][index] = built.outPrim],
                    !.aabb = Union(built.outPrim.aabb, @),
                    !.geometry = Put(@, index, [type |-> primType,
                                               vertices |-> built.outPrim.vertices,
                                               indices |-> built.outPrim.indices])]

\* One iteration once the material instance is there: m is [c, mi, uvmap].
PrimitiveStep(mesh, index, primType, st, m) ==
    AddPrimitive(mesh, index, primType, [st EXCEPT !.materials = Append(@, m.mi)],
                 BuildIfNeeded(m.c, mesh, index, m.c.meshCache[mesh][index], m.uvmap))

\* The loop over the primitives of the mesh: st is [c, aabb, materials,
\* geometry]; garbage is what an uninitialized primType happens to hold.
RECURSIVE PrimitiveLoop(_, _, _, _)
PrimitiveLoop(mesh, index, garbage, st) ==
    IF index > Len(srcAsset.meshes[mesh]) THEN st
    ELSE PrimitiveLoop(mesh, index + 1, garbage,
             PrimitiveStep(mesh, index,
                 IF srcAsset.meshes[mesh][index].typeOk THEN "TRIANGLES" ELSE garbage,
                 st,
                 createMaterialInstance(st.c, srcAsset.meshes[mesh][index].material,
                     primitiveHasVertexColor(srcAsset.meshes[mesh][index]))))

\* mMeshCache[mesh].resize(nprims)
ResizeMeshCache(c, mesh) ==
    IF mesh \in DOMAIN c.meshCache THEN c
    ELSE [c EXCEPT !.meshCache = Put(@, mesh, [i \in 1..Len(srcAsset.meshes[mesh]) |-> NullPrimitive])]

\* createRenderable after the loop over the primitives: loop is what it left.
BuildRenderable(node, entity, worldTransform, loop) ==
    [loop.c EXCEPT !.res.boundingBox = Union(@, BoundsOf(worldTransform, loop.aabb)),
                   !.rm = Put(@, entity,
                              [materials |-> loop.materials, geometry |-> loop.geometry,
                               boundingBox |-> loop.aabb,
                               skinning |-> IF srcAsset.nodes[node].skin # 0
                                            THEN Len(srcAsset.skins[srcAsset.nodes[node].skin])
                                            ELSE 0])]

createRenderable(c, node, entity, garbage) ==
    BuildRenderable(node, entity, c.tm[entity],
        PrimitiveLoop(srcAsset.nodes[node].mesh, 1, garbage,
            [c |-> ResizeMeshCache(c, srcAsset.nodes[node].mesh),
             aabb |-> EmptyAabb, materials |-> <<>>, geometry |-> <<>>]))

----------------------------------------------------------------------------
(* FAssetLoader::createEntity, without its recursive calls *)

\* The entity created, placed under its parent and entered in the node map.
AddEntity(c, node, parent, entity) ==
    [c EXCEPT !.created.entities = @ + 1,
              !.tm = Put(@, entity, MulMat(c.tm[parent], srcAsset.nodes[node].matrix)),
              !.res.entities = Append(@, entity),
              !.res.nodeMap = Put(@, node, entity)]

\* if (node->mesh) { createRenderable(node, entity); }
WithRenderable(c, node, entity, garbage) ==
    [entity |-> entity,
     c |-> IF srcAsset.nodes[node].mesh # 0 THEN createRenderable(c, node, entity, garbage)
           ELSE c]

createEntity(c, node, parent, garbage) ==
    WithRenderable(AddEntity(c, node, parent, Handle(c.created.entities + 1)),
                   node, Handle(c.created.entities + 1), garbage)

Calls_LastChildFirst(nodes, parent) ==
    [i \in 1..Len(nodes) |-> [node |-> nodes[Len(nodes) + 1 - i], parent |-> parent]]

\* The calls createEntity(nodes[i], parent), in the order of the loop.
Calls(nodes, parent) == [i \in 1..Len(nodes) |-> [node |-> nodes[i], parent |-> parent]]

----------------------------------------------------------------------------
(* FAssetLoader::importSkinningData *)

JointOf_First(nodeMap, srcSkin, i) == nodeMap[srcSkin[1]]

\* nodeMap.at(srcSkin.joints[i])
JointOf(nodeMap, srcSkin, i) == nodeMap[srcSkin[i]]

\* [thrown, skin]: std::out_of_range leaves the joints after the missing one unset.
importSkinningData(dstSkin, srcSkin, nodeMap) ==
    LET missing == { i \in 1..Len(srcSkin) : srcSkin[i] \notin DOMAIN nodeMap }
        upto == IF missing = {} THEN Len(srcSkin) + 1
                ELSE CHOOSE i \in missing : \A j \in missing : i <= j
    IN  [thrown |-> missing # {},
         skin |-> [dstSkin EXCEPT !.joints =
                     [i \in 1..Len(srcSkin) |->
                        IF i < upto THEN JointOf(nodeMap, srcSkin, i) ELSE NullEntity]]]

EmptySkin == [joints |-> <<>>, targets |-> <<>>]

\* the loop of createAsset over the document's skins
RECURSIVE ImportSkinsFrom(_, _)
ImportSkinsFrom(i, st) ==
    IF i > Len(srcAsset.skins) \/ st.thrown THEN st
    ELSE LET r == importSkinningData(st.res.skins[i], srcAsset.skins[i], st.res.nodeMap)
         IN  ImportSkinsFrom(i + 1, [thrown |-> r.thrown,
                                     res |-> [st.res EXCEPT !.skins[i] = r.skin]])

\* the loop of createAsset over the document's nodes that builds the target lists
RECURSIVE TargetsFrom(_, _)
TargetsFrom(i, res) ==
    IF i > Len(srcAsset.nodes) THEN res
    ELSE LET skinIndex == srcAsset.nodes[i].skin
             found == IF i \in DOMAIN res.nodeMap THEN res
                      ELSE [res EXCEPT !.nodeMap = Put(@, i, NullEntity)]
         IN  TargetsFrom(i + 1,
                 IF skinIndex = 0 THEN res
                 ELSE [found EXCEPT !.skins[skinIndex].targets = Append(@, found.nodeMap[i])])

----------------------------------------------------------------------------
(* The loader. *)

Sources == {"LOAD_UBERSHADERS", "GENERATE_SHADERS"}

\* mResult before the first call and after its asset was handed over
Dangling == [dangling |-> TRUE]
NoReturn == [none |-> TRUE]

Init ==
    /\ source \in Sources
    /\ pc = "idle"
    /\ calls = 0
    /\ srcAsset = NoDocument
    /\ stack = <<>>
    /\ mResult = Dangling
    /\ mMatInstanceCache = <<>>
    /\ mMeshCache = <<>>
    /\ mError = FALSE
    /\ created = NoneCreated
    /\ mTransformManager = <<>>
    /\ mRenderableManager = <<>>
    /\ providerCalls = <<>>
    /\ primitiveCalls = <<>>
    /\ materialCalls = <<>>
    /\ returned = NoReturn
    /\ failed = FALSE

\* The context written back to the variables it was read from.
Store(c) ==
    /\ mResult' = c.res
    /\ mMatInstanceCache' = c.matCache
    /\ mMeshCache' = c.meshCache
    /\ mError' = c.err
    /\ created' = c.created
    /\ mTransformManager' = c.tm
    /\ mRenderableManager' = c.rm
    /\ providerCalls' = c.provider
    /\ primitiveCalls' = c.prims
    /\ materialCalls' = c.mats

\* srcAsset->scene ? srcAsset->scene : srcAsset->scenes; 0 is a null pointer
SceneOf(d) == IF d.scene # 0 THEN d.scene ELSE IF Len(d.scenes) > 0 THEN 1 ELSE 0

\* createAssetFromJson / createAssetFromBinary when cgltf_parse fails:
\* createAsset is not called.
ParseFailure ==
    /\ pc = "idle"
    /\ calls < MaxImports
    /\ calls' = calls + 1
    /\ returned' = NullResult
    /\ pc' = "returned"
    /\ UNCHANGED <<source, srcAsset, stack, mResult, mMatInstanceCache, mMeshCache, mError,
                   created, mTransformManager, mRenderableManager, providerCalls,
                   primitiveCalls, materialCalls, failed>>

\* createAsset up to the loop over the roots of the scene; the objects of the
\* call before are no longer the loader's.
BeginImport ==
    /\ pc = "idle"
    /\ calls < MaxImports
    /\ \E d \in Documents :
        LET root == HandleOf(calls + 1, 1)
        IN  /\ srcAsset' = d
            /\ calls' = calls + 1
            /\ providerCalls' = <<>>
            /\ primitiveCalls' = <<>>
            /\ materialCalls' = <<>>
            /\ mRenderableManager' = <<>>
            /\ failed' = FALSE
            /\ returned' = NoReturn
            /\ IF SceneOf(d) = 0
               THEN /\ mResult' = NewAsset
                    /\ created' = NoneCreated
                    /\ mTransformManager' = <<>>
                    /\ stack' = <<>>
                    /\ pc' = "return"
               ELSE /\ mResult' = [NewAsset EXCEPT !.root = root]
                    /\ created' = [NoneCreated EXCEPT !.entities = 1]
                    /\ mTransformManager' = Put(<<>>, root, Identity)
                    /\ stack' = Calls(d.scenes[SceneOf(d)], root)
                    /\ pc' = "traverse"
    /\ UNCHANGED <<source, mMatInstanceCache, mMeshCache, mError>>

\* Whether createRenderable of the node reads a primType that was never written.
ReadsGarbage(node) ==
    /\ srcAsset.nodes[node].mesh # 0
    /\ \E i \in 1..Len(srcAsset.meshes[srcAsset.nodes[node].mesh]) :
           ~srcAsset.meshes[srcAsset.nodes[node].mesh][i].typeOk

\* The next call of createEntity, in the order of the recursion: the node is
\* processed and the calls for its children come before the pending ones.
CreateEntity ==
    /\ pc = "traverse"
    /\ stack # <<>>
    /\ \E garbage \in IF ReadsGarbage(Head(stack).node) THEN PrimitiveTypes ELSE {"TRIANGLES"} :
         \E r \in {createEntity(Context, Head(stack).node, Head(stack).parent, garbage)} :
            /\ Store(r.c)
            /\ stack' = Calls(srcAsset.nodes[Head(stack).node].children, r.entity) \o Tail(stack)
    /\ UNCHANGED <<source, pc, calls, srcAsset, returned, failed>>

\* if (mError) { delete mResult; mResult = nullptr; }  followed by uses of
\* mResult: a build may drop the branch, since it can only lead to a null
\* dereference.
CheckError ==
    /\ pc = "traverse"
    /\ stack = <<>>
    /\ failed' = mError
    /\ pc' = "skins"
    /\ IF mError
       THEN \E outcome \in {"deleted", "branch elided"} :
                mResult' = IF outcome = "deleted" THEN NullResult ELSE mResult
       ELSE mResult' = mResult
    /\ UNCHANGED <<source, calls, srcAsset, stack, mMatInstanceCache, mMeshCache, mError,
                   created, mTransformManager, mRenderableManager, providerCalls,
                   primitiveCalls, materialCalls, returned>>

\* mResult->mSkins.resize(...) and the loop calling importSkinningData.  With
\* mResult null the access either faults or goes unnoticed.
ImportSkins ==
    /\ pc = "skins"
    /\ IF mResult = NullResult
       THEN /\ \E outcome \in {"fault", "no fault"} :
                  pc' = IF outcome = "fault" THEN "crashed" ELSE "targets"
            /\ mResult' = mResult
       ELSE LET resized == [mResult EXCEPT !.skins = [i \in 1..Len(srcAsset.skins) |-> EmptySkin]]
                r == ImportSkinsFrom(1, [thrown |-> FALSE, res |-> resized])
            IN  /\ mResult' = r.res
                /\ pc' = IF r.thrown THEN "aborted" ELSE "targets"
    /\ UNCHANGED <<source, calls, srcAsset, stack, mMatInstanceCache, mMeshCache, mError,
                   created, mTransformManager, mRenderableManager, providerCalls,
                   primitiveCalls, materialCalls, returned, failed>>

\* For each skin, build a list of renderables that it affects.
BuildTargets ==
    /\ pc = "targets"
    /\ mResult' = IF mResult = NullResult THEN mResult ELSE TargetsFrom(1, mResult)
    /\ pc' = "finish"
    /\ UNCHANGED <<source, calls, srcAsset, stack, mMatInstanceCache, mMeshCache, mError,
                   created, mTransformManager, mRenderableManager, providerCalls,
                   primitiveCalls, materialCalls, returned, failed>>

TransientsAfterImport_Kept ==
    [matCache |-> mMatInstanceCache, meshCache |-> mMeshCache, err |-> mError]

\* mMatInstanceCache.clear(); mMeshCache.clear(); mError = false;
TransientsAfterImport == [matCache |-> <<>>, meshCache |-> <<>>, err |-> FALSE]

Finish ==
    /\ pc = "finish"
    /\ mMatInstanceCache' = TransientsAfterImport.matCache
    /\ mMeshCache' = TransientsAfterImport.meshCache
    /\ mError' = TransientsAfterImport.err
    /\ pc' = "return"
    /\ UNCHANGED <<source, calls, srcAsset, stack, mResult, created, mTransformManager,
                   mRenderableManager, providerCalls, primitiveCalls, materialCalls, returned, failed>>

\* The entry points that call createAsset.
Entries == {"createAssetFromJson", "createAssetFromBinary", "createAssetFromHandle"}

\* What the entry point does after createAsset: createAssetFromHandle writes
\* mResult->mSharedSourceAsset, the others return mResult as it is.
Return ==
    /\ pc = "return"
    /\ \E entry \in Entries :
        IF entry = "createAssetFromHandle"
        THEN IF mResult = NullResult
             THEN /\ \E outcome \in {"fault", "no fault"} :
                        pc' = IF outcome = "fault" THEN "crashed" ELSE "returned"
                  /\ mResult' = mResult
                  /\ returned' = mResult
             ELSE /\ mResult' = [mResult EXCEPT !.sharedSourceAsset = TRUE]
                  /\ returned' = mResult'
                  /\ pc' = "returned"
        ELSE /\ mResult' = mResult
             /\ returned' = mResult
             /\ pc' = "returned"
    /\ UNCHANGED <<source, calls, srcAsset, stack, mMatInstanceCache, mMeshCache, mError,
                   created, mTransformManager, mRenderableManager, providerCalls,
                   primitiveCalls, materialCalls, failed>>

\* The caller takes the returned asset.  Nothing reads mResult again before
\* the next createAsset assigns it.
Release ==
    /\ pc = "returned"
    /\ pc' = "idle"
    /\ mResult' = Dangling
    /\ returned' = NoReturn
    /\ srcAsset' = NoDocument
    /\ created' = NoneCreated
    /\ mTransformManager' = <<>>
    /\ mRenderableManager' = <<>>
    /\ providerCalls' = <<>>
    /\ primitiveCalls' = <<>>
    /\ materialCalls' = <<>>
    /\ UNCHANGED <<source, calls, stack, mMatInstanceCache, mMeshCache, mError, failed>>

Next ==
    \/ ParseFailure
    \/ BeginImport
    \/ CreateEntity
    \/ CheckError
    \/ ImportSkins
    \/ BuildTargets
    \/ Finish
    \/ Return
    \/ Release

Spec == Init /\ [][Next]_vars

----------------------------------------------------------------------------
(* What the properties below speak about. *)

IsAsset(r) == r \notin {NullResult, Dangling, NoReturn}

\* The scene a call of createAsset traverses, and its nodes in depth-first
\* pre-order, read off the document.
RECURSIVE PreorderOf(_, _)
PreorderOf(d, nodes) ==
    IF nodes = <<>> THEN <<>>
    ELSE <<Head(nodes)>> \o PreorderOf(d, d.nodes[Head(nodes)].children) \o PreorderOf(d, Tail(nodes))

TraversalOf(d) == IF SceneOf(d) = 0 THEN <<>> ELSE PreorderOf(d, d.scenes[SceneOf(d)])

DocParent(d, n) ==
    IF \E q \in 1..Len(d.nodes) : n \in SeqRange(d.nodes[q].children)
    THEN CHOOSE q \in 1..Len(d.nodes) : n \in SeqRange(d.nodes[q].children)
    ELSE 0

\* The accumulated transform of a node: the product of the local transforms
\* from its scene root down to it.
RECURSIVE DocWorld(_, _)
DocWorld(d, n) ==
    IF DocParent(d, n) = 0 THEN d.nodes[n].matrix
    ELSE MulMat(DocWorld(d, DocParent(d, n)), d.nodes[n].matrix)

\* The nodes createEntity has been called for so far, in call order, and the
\* entity it created for each: the k-th call fills mEntities[k].
Visited == SubSeq(TraversalOf(srcAsset), 1, Len(mResult.entities))
VisitedNodes == SeqRange(Visited)
EntityFor(n) == mResult.entities[CHOOSE k \in 1..Len(Visited) : Visited[k] = n]

Importing == pc \in {"traverse", "skins", "targets", "finish", "return", "returned", "aborted"}
                /\ srcAsset # NoDocument /\ IsAsset(mResult)

\* A successful import: a scene was traversed, no primitive failed, and the
\* call went past the skin loop.
Succeeded ==
    /\ pc \in {"targets", "finish", "return", "returned"}
    /\ srcAsset # NoDocument /\ IsAsset(mResult)
    /\ SceneOf(srcAsset) # 0
    /\ ~failed

\* The primitives that have been given a material so far:
\* [node, index, prim, instance].
Rendered ==
    { [node |-> n, index |-> i, prim |-> srcAsset.meshes[srcAsset.nodes[n].mesh][i],
       instance |-> mRenderableManager[EntityFor(n)].materials[i]] :
        <<n, i>> \in { t \in VisitedNodes \X (1..(1 + MaxMatPrims)) :
                         /\ srcAsset.nodes[t[1]].mesh # 0
                         /\ t[2] <= Len(srcAsset.meshes[srcAsset.nodes[t[1]].mesh]) } }

Contains(outer, inner) ==
    /\ \A i \in 1..3 : outer.min[i] <= inner.min[i]
    /\ \A i \in 1..3 : outer.max[i] >= inner.max[i]

Inside(box, p) == \A i \in 1..3 : box.min[i] <= p[i] /\ p[i] <= box.max[i]

----------------------------------------------------------------------------
(* C1 (as claimed): when a primitive failed to build, the import runs to    *)
(* completion and the create call returns null; the partly built asset is   *)
(* never returned, and after the rollback no step is left that uses         *)
(* mResult.                                                                 *)
C1_FailedImportReturnsNull ==
    failed =>
        /\ pc # "crashed"
        /\ pc = "returned" => returned = NullResult
        /\ ~(pc \in {"skins", "targets"} /\ mResult = NullResult)

----------------------------------------------------------------------------
(* C2: in a successful import, any two traversed nodes that reference the   *)
(* same mesh were given, for every primitive index of the mesh, the same    *)
(* vertex buffer object and the same index buffer object.                   *)
C2_SharedGeometry ==
    Succeeded =>
        \A n1, n2 \in VisitedNodes :
            (srcAsset.nodes[n1].mesh # 0 /\ srcAsset.nodes[n1].mesh = srcAsset.nodes[n2].mesh) =>
                LET g1 == mRenderableManager[EntityFor(n1)].geometry
                    g2 == mRenderableManager[EntityFor(n2)].geometry
                IN  \A i \in 1..Len(srcAsset.meshes[srcAsset.nodes[n1].mesh]) :
                        /\ i \in DOMAIN g1 /\ i \in DOMAIN g2
                        /\ g1[i].vertices # NoBuffer /\ g1[i].indices # NoBuffer
                        /\ g1[i].vertices.id = g2[i].vertices.id
                        /\ g1[i].indices.id = g2[i].indices.id

C2_Witness ==
    /\ Succeeded /\ pc = "returned"
    /\ \E n1, n2 \in VisitedNodes :
          /\ n1 # n2
          /\ srcAsset.nodes[n1].mesh # 0
          /\ srcAsset.nodes[n1].mesh = srcAsset.nodes[n2].mesh
          /\ Len(srcAsset.meshes[srcAsset.nodes[n1].mesh]) >= 2

----------------------------------------------------------------------------
(* C3 (as claimed): any two primitives whose material definitions have the  *)
(* same content and whose vertex-color presence is the same were given the  *)
(* same material instance, also when the definitions are two objects.       *)
C3_EqualContentSharesInstance ==
    Importing =>
        \A a, b \in Rendered :
            (/\ a.prim.material # 0 /\ b.prim.material # 0
             /\ srcAsset.materials[a.prim.material] = srcAsset.materials[b.prim.material]
             /\ primitiveHasVertexColor(a.prim) = primitiveHasVertexColor(b.prim))
            => a.instance.id = b.instance.id

(* C3 (amended): any two primitives that reference the same material object *)
(* and whose vertex-color presence is the same were given the same          *)
(* material instance.                                                       *)
C3_SameMaterialSharesInstance ==
    Importing =>
        \A a, b \in Rendered :
            (/\ a.prim.material # 0
             /\ a.prim.material = b.prim.material
             /\ primitiveHasVertexColor(a.prim) = primitiveHasVertexColor(b.prim))
            => a.instance.id = b.instance.id

C3_Witness ==
    /\ Importing
    /\ \E a, b \in Rendered :
          /\ <<a.node, a.index>> # <<b.node, b.index>>
          /\ a.prim.material # 0
          /\ a.prim.material = b.prim.material
          /\ primitiveHasVertexColor(a.prim) = primitiveHasVertexColor(b.prim)

----------------------------------------------------------------------------
----------------------------------------------------------------------------
(* C5 (as claimed): the provider is asked for the default instance at most  *)
(* once per import, and the asset's list of material instances holds at     *)
(* most one default instance.                                               *)
C5_DefaultInstanceCreatedOnce ==
    /\ Cardinality({ k \in 1..Len(providerCalls) : providerCalls[k].material = 0 }) <= 1
    /\ Importing =>
          Cardinality({ k \in 1..Len(mResult.materialInstances) :
                          mResult.materialInstances[k].material = 0 }) <= 1

----------------------------------------------------------------------------
(* C6: for every vertex buffer createPrimitive has built, under either      *)
(* strategy of the provider, the bindings that target it name exactly the   *)
(* slots 0..bufferCount-1, each slot once; a binding's slot is the slot the *)
(* layout gave to the same attribute stream (the dummy binding's slot is    *)
(* the slot of the dummy attributes); and bufferCount == slot held at the   *)
(* end of every call that returned true.                                    *)
BindingsOf(vb) ==
    { k \in 1..Len(mResult.bufferBindings) : mResult.bufferBindings[k].vertexBuffer = vb }

C6_DescriptorsMatchLayout ==
    /\ \A k \in 1..Len(primitiveCalls) : primitiveCalls[k].ok => primitiveCalls[k].assertHolds
    /\ Importing =>
          \A v \in 1..Len(mResult.vertexBuffers) :
              LET vb == mResult.vertexBuffers[v]
                  bs == { mResult.bufferBindings[k] : k \in BindingsOf(vb) }
              IN  /\ Cardinality(BindingsOf(vb)) = vb.bufferCount
                  /\ \A slot \in 0..(vb.bufferCount - 1) :
                         Cardinality({ k \in BindingsOf(vb) :
                                         mResult.bufferBindings[k].bufferIndex = slot }) = 1
                  /\ \A b \in bs :
                         /\ b.generateDummyData = (b.stream = -1)
                         /\ \E sem \in DOMAIN vb.attributes :
                                /\ vb.attributes[sem].stream = b.stream
                                /\ vb.attributes[sem].bufferIndex = b.bufferIndex
                  /\ \A sem \in DOMAIN vb.attributes :
                         \E b \in bs :
                             /\ b.stream = vb.attributes[sem].stream
                             /\ b.bufferIndex = vb.attributes[sem].bufferIndex

C6_Witness ==
    /\ Importing
    /\ source = "LOAD_UBERSHADERS"
    /\ \E v \in 1..Len(mResult.vertexBuffers), c \in 1..Len(primitiveCalls) :
          LET vb == mResult.vertexBuffers[v]
              bs == { mResult.bufferBindings[k] : k \in BindingsOf(vb) }
              inPrim == srcAsset.meshes[primitiveCalls[c].prim[1]][primitiveCalls[c].prim[2]]
          IN  /\ primitiveCalls[c].ok
              /\ vb.bufferCount >= 4
              /\ \E b \in bs : b.generateDummyData
              /\ \E b \in bs : b.generateTangents
              /\ \E a \in 1..Len(inPrim.attributes) :
                    /\ inPrim.attributes[a].type = "texcoord"
                    /\ \E a2 \in (a + 1)..Len(inPrim.attributes) : \E b \in bs : b.stream = a2
                    /\ \A b \in bs : b.stream # a

----------------------------------------------------------------------------
----------------------------------------------------------------------------
(* C8: after a successful import the asset's bounding box contains, for     *)
(* every traversed node with a mesh and every primitive of the mesh, the    *)
(* eight corners of the primitive's object-space box transformed by the     *)
(* node's accumulated transform; and a step of the traversal never shrinks  *)
(* the asset's bounding box.                                                *)
C8_Contains ==
    Succeeded =>
        \A n \in VisitedNodes :
            srcAsset.nodes[n].mesh # 0 =>
                \A i \in 1..Len(srcAsset.meshes[srcAsset.nodes[n].mesh]) :
                    LET prim == srcAsset.meshes[srcAsset.nodes[n].mesh][i]
                    IN  \A p \in Corners([min |-> prim.min, max |-> prim.max]) :
                            Inside(mResult.boundingBox, MulPoint(DocWorld(srcAsset, n), p))

C8_Grows ==
    (pc = "traverse" /\ IsAsset(mResult) /\ IsAsset(mResult')) =>
        Contains(mResult'.boundingBox, mResult.boundingBox)

C8_WorldBoxCoversPrimitives == [](C8_Contains) /\ [][C8_Grows]_vars

C8_Witness ==
    /\ Succeeded /\ pc = "returned"
    /\ \E n \in VisitedNodes :
          /\ srcAsset.nodes[n].mesh # 0
          /\ Len(srcAsset.meshes[srcAsset.nodes[n].mesh]) >= 2
          /\ DocParent(srcAsset, n) # 0
          /\ srcAsset.nodes[DocParent(srcAsset, n)].matrix # Identity
          /\ srcAsset.nodes[DocParent(srcAsset, n)].mesh # 0
          /\ srcAsset.nodes[n].matrix.r # Identity.r

----------------------------------------------------------------------------
(* C9: after a successful import the asset has one skin per skin of the     *)
(* document, each with as many joints as the document's skin declares, the  *)
(* i-th being the entity that createEntity made for the i-th declared joint *)
(* node.  (An import of a document without a scene returns an asset without *)
(* skins; it traverses nothing and is not counted as a successful import.)  *)
C9_JointsInDeclaredOrder ==
    Succeeded =>
        /\ Len(mResult.skins) = Len(srcAsset.skins)
        /\ \A s \in 1..Len(srcAsset.skins) :
              /\ Len(mResult.skins[s].joints) = Len(srcAsset.skins[s])
              /\ \A i \in 1..Len(srcAsset.skins[s]) :
                    /\ srcAsset.skins[s][i] \in VisitedNodes
                    /\ mResult.skins[s].joints[i] = EntityFor(srcAsset.skins[s][i])

C9_Witness ==
    /\ Succeeded /\ pc = "returned"
    /\ \E s \in 1..Len(srcAsset.skins) :
          /\ Len(srcAsset.skins[s]) >= 2
          /\ srcAsset.skins[s][1] > srcAsset.skins[s][2]

----------------------------------------------------------------------------
(* C10 (as claimed): for a document with a scene, once traversal is over    *)
(* every node of the document has an entity in the node map, and resolving  *)
(* the joints of the skins does not fail.                                   *)
C10_NodeMapComplete ==
    (pc \in {"skins", "aborted"} /\ IsAsset(mResult) /\ SceneOf(srcAsset) # 0) =>
        /\ \A n \in 1..Len(srcAsset.nodes) : n \in DOMAIN mResult.nodeMap
        /\ pc # "aborted"

----------------------------------------------------------------------------
(* C11 (as claimed): after a successful import, once the target lists are   *)
(* built, the target list of each skin holds one entry per document node    *)
(* that references the skin, each entry is the entity createEntity made for *)
(* that node (an element of the entity list), and the node map holds the    *)
(* traversed nodes and nothing else.                                        *)
TargetsBuilt == Succeeded /\ pc \in {"finish", "return", "returned"}

SkinnedBy(s) == { n \in 1..Len(srcAsset.nodes) : srcAsset.nodes[n].skin = s }

C11_TargetsAreTraversedEntities ==
    TargetsBuilt =>
        /\ \A s \in 1..Len(srcAsset.skins) :
              /\ Len(mResult.skins[s].targets) = Cardinality(SkinnedBy(s))
              /\ \A n \in SkinnedBy(s) :
                    /\ n \in VisitedNodes
                    /\ EntityFor(n) \in SeqRange(mResult.skins[s].targets)
              /\ SeqRange(mResult.skins[s].targets) \subseteq SeqRange(mResult.entities)
        /\ DOMAIN mResult.nodeMap = VisitedNodes

----------------------------------------------------------------------------
(* C12 (as claimed): for every primitive without an index stream that was   *)
(* given geometry, the index count of its index buffer equals the vertex    *)
(* count of its vertex buffer, and exactly one binding targets the index    *)
(* buffer: it has generateTrivialIndices set and names no source bytes.     *)
IndexBindingsOf(ib) ==
    { k \in 1..Len(mResult.bufferBindings) : mResult.bufferBindings[k].indexBuffer = ib }

\* The primitives without an index stream that were attached to a renderable:
\* the geometry createRenderable gave to the builder.
Unindexed ==
    { mRenderableManager[EntityFor(r.node)].geometry[r.index] :
        r \in { x \in Rendered : /\ x.prim.indices = "none"
                                 /\ x.index \in DOMAIN mRenderableManager[EntityFor(x.node)].geometry } }

C12_TrivialIndicesMatchVertexCount ==
    Importing =>
        \A g \in Unindexed :
            /\ g.indices.indexCount = g.vertices.vertexCount
            /\ Cardinality(IndexBindingsOf(g.indices)) = 1
            /\ \A k \in IndexBindingsOf(g.indices) :
                  /\ mResult.bufferBindings[k].generateTrivialIndices
                  /\ mResult.bufferBindings[k].stream = -1

----------------------------------------------------------------------------
(* C13 (as claimed): a primitive whose topology getPrimitiveType rejects is *)
(* given no geometry on any renderable, and once createRenderable has       *)
(* passed over it the error flag of the import is set (mError during the    *)
(* traversal, the failure it leads to afterwards).                          *)
C13_UnsupportedTopologySkipped ==
    Importing =>
        \A r \in Rendered :
            ~r.prim.typeOk =>
                /\ r.index \notin DOMAIN mRenderableManager[EntityFor(r.node)].geometry
                /\ IF pc = "traverse" THEN mError ELSE failed

----------------------------------------------------------------------------
(* C14 (as claimed): a call of createPrimitive for a primitive whose index  *)
(* stream or whose position, normal or color stream is a sparse accessor    *)
(* returns false, and no binding of a returned asset refers to the data of  *)
(* a sparse accessor.                                                       *)
UsesSparse(inPrim) ==
    \/ inPrim.indices = "sparse"
    \/ \E a \in 1..Len(inPrim.attributes) :
          /\ inPrim.attributes[a].sparse
          /\ inPrim.attributes[a].type \in {"position", "normal", "color"}

C14_SparseRejected ==
    /\ \A k \in 1..Len(primitiveCalls) :
          UsesSparse(srcAsset.meshes[primitiveCalls[k].prim[1]][primitiveCalls[k].prim[2]])
              => ~primitiveCalls[k].ok
    /\ (pc = "returned" /\ IsAsset(returned)) =>
          \A k \in 1..Len(returned.bufferBindings) : ~returned.bufferBindings[k].sparseSource

----------------------------------------------------------------------------
(* What a built primitive lacks, read off the document and the UvMap its    *)
(* material instance came with, and the dummy attributes, slots and         *)
(* bindings of its vertex buffer.                                           *)

\* The rendered primitives that were given geometry, each with its vertex
\* buffer and the UvMap createMaterialInstance returned for it.
Built ==
    { [prim |-> r.prim,
       vb |-> mRenderableManager[EntityFor(r.node)].geometry[r.index].vertices,
       uvmap |-> materialCalls[CHOOSE k \in 1..Len(materialCalls) :
                                 materialCalls[k].instance = r.instance].uvmap] :
        r \in { x \in Rendered :
                  x.index \in DOMAIN mRenderableManager[EntityFor(x.node)].geometry } }

HasUv(prim, uvmap, set) ==
    \E a \in 1..Len(prim.attributes) :
        prim.attributes[a].type = "texcoord" /\ uvmap[prim.attributes[a].index] = set

MissingOf(b) ==
    IF source # "LOAD_UBERSHADERS" THEN {}
    ELSE (IF HasUv(b.prim, b.uvmap, "UV0") THEN {} ELSE {"UV0"}) \cup
         (IF HasUv(b.prim, b.uvmap, "UV1") THEN {} ELSE {"UV1"}) \cup
         (IF primitiveHasVertexColor(b.prim) THEN {} ELSE {"COLOR"})

DummyAttrsOf(vb) == { sem \in DOMAIN vb.attributes : vb.attributes[sem].stream = -1 }
DummySlotsOf(vb) == { vb.attributes[sem].bufferIndex : sem \in DummyAttrsOf(vb) }
DummyBindingsOf(vb) == { k \in BindingsOf(vb) : mResult.bufferBindings[k].generateDummyData }

(* C15 (as claimed): the number of dummy slots of a built primitive's       *)
(* vertex buffer and the number of its dummy bindings both equal the number *)
(* of attributes among UV0, UV1 and COLOR that the primitive lacks under    *)
(* the ubershader strategy, and are zero under any other strategy.          *)
C15_DummySlotPerMissingAttribute ==
    Importing =>
        \A b \in Built :
            /\ Cardinality(DummySlotsOf(b.vb)) = Cardinality(MissingOf(b))
            /\ Cardinality(DummyBindingsOf(b.vb)) = Cardinality(MissingOf(b))

(* C15 (amended): the dummy attributes of a built primitive's vertex buffer *)
(* are exactly the attributes it lacks; when it lacks any they all share    *)
(* one slot, the last of the buffer, backed by exactly one binding flagged  *)
(* generateDummyData without source bytes; when it lacks none, or under     *)
(* another strategy, there is no dummy attribute, slot or binding.          *)
C15_OneSharedDummySlot ==
    Importing =>
        \A b \in Built :
            /\ DummyAttrsOf(b.vb) = MissingOf(b)
            /\ Cardinality(DummySlotsOf(b.vb)) = (IF MissingOf(b) = {} THEN 0 ELSE 1)
            /\ Cardinality(DummyBindingsOf(b.vb)) = (IF MissingOf(b) = {} THEN 0 ELSE 1)
            /\ DummySlotsOf(b.vb) \subseteq {b.vb.bufferCount - 1}
            /\ \A k \in DummyBindingsOf(b.vb) :
                  /\ mResult.bufferBindings[k].stream = -1
                  /\ mResult.bufferBindings[k].bufferIndex \in DummySlotsOf(b.vb)

C15_Witness ==
    /\ Importing
    /\ source = "LOAD_UBERSHADERS"
    /\ \E b \in Built :
          /\ Cardinality(MissingOf(b)) = 3
          /\ b.vb.bufferCount >= 3
          /\ Cardinality(DummyBindingsOf(b.vb)) = 1

----------------------------------------------------------------------------
(* C16 (as claimed): within one import createPrimitive is called at most    *)
(* once for each primitive of the document, whether the call returns true   *)
(* or false, and the asset never holds more index buffers, vertex buffers   *)
(* or bindings of index buffers than the meshes of the traversed nodes have *)
(* primitives.                                                              *)
ReferencedPrimitives ==
    { t \in (1..Len(srcAsset.meshes)) \X (1..(1 + MaxMatPrims)) :
        /\ \E n \in VisitedNodes : srcAsset.nodes[n].mesh = t[1]
        /\ t[2] <= Len(srcAsset.meshes[t[1]]) }

C16_PrimitiveBuiltAtMostOnce ==
    /\ \A i, j \in 1..Len(primitiveCalls) :
          i # j => primitiveCalls[i].prim # primitiveCalls[j].prim
    /\ Importing =>
          /\ Len(mResult.indexBuffers) <= Cardinality(ReferencedPrimitives)
          /\ Len(mResult.vertexBuffers) <= Cardinality(ReferencedPrimitives)
          /\ Cardinality({ k \in 1..Len(mResult.bufferBindings) :
                             mResult.bufferBindings[k].indexBuffer # NoBuffer })
                 <= Cardinality(ReferencedPrimitives)

----------------------------------------------------------------------------
(* C17: for every built primitive, a texcoord stream whose set the UvMap    *)
(* maps to UNUSED has no attribute in the vertex buffer and no binding, and *)
(* every other stream except tangents has, in the layout and in its         *)
(* binding alike, the slot numbered by the count of such streams before it. *)
Dropped(b, a) ==
    \/ b.prim.attributes[a].type = "tangent"
    \/ b.prim.attributes[a].type = "texcoord"
         /\ b.uvmap[b.prim.attributes[a].index] = "UNUSED"

UnusedTexcoord(b, a) ==
    b.prim.attributes[a].type = "texcoord" /\ b.uvmap[b.prim.attributes[a].index] = "UNUSED"

SlotOf(b, a) == Cardinality({ x \in 1..(a - 1) : ~Dropped(b, x) })

C17_UnusedTexcoordDropped ==
    Importing =>
        \A b \in Built :
            \A a \in 1..Len(b.prim.attributes) :
                IF Dropped(b, a)
                THEN /\ \A sem \in DOMAIN b.vb.attributes : b.vb.attributes[sem].stream # a
                     /\ \A k \in BindingsOf(b.vb) : mResult.bufferBindings[k].stream # a
                ELSE /\ \E sem \in DOMAIN b.vb.attributes :
                            /\ b.vb.attributes[sem].stream = a
                            /\ b.vb.attributes[sem].bufferIndex = SlotOf(b, a)
                     /\ \E k \in BindingsOf(b.vb) :
                            /\ mResult.bufferBindings[k].stream = a
                            /\ mResult.bufferBindings[k].bufferIndex = SlotOf(b, a)

C17_Witness ==
    /\ Importing
    /\ \E b \in Built :
          \E a \in 1..Len(b.prim.attributes) :
              /\ UnusedTexcoord(b, a)
              /\ \E x \in 1..(a - 1) : b.prim.attributes[x].type = "texcoord" /\ ~Dropped(b, x)
              /\ \E y \in (a + 1)..Len(b.prim.attributes) :
                    /\ ~Dropped(b, y)
                    /\ \E k \in BindingsOf(b.vb) : mResult.bufferBindings[k].stream = y

----------------------------------------------------------------------------
(* C18: whether or not primitives fail to build, every call of createEntity *)
(* appends one new entity for the next node of the depth-first pre-order of *)
(* the chosen scene, enters it in the node map, and places it under the     *)
(* entity of the node's document parent (under the root entity for a root   *)
(* of the scene); and when the traversal is over the entity list holds      *)
(* exactly one entity per node reachable from the scene, all distinct.      *)
ParentEntity(n) ==
    IF DocParent(srcAsset, n) = 0 THEN mResult.root
    ELSE mResult.nodeMap[DocParent(srcAsset, n)]

C18_Step ==
    (pc = "traverse" /\ stack # <<>>) =>
        /\ Len(mResult'.entities) = Len(mResult.entities) + 1
        /\ Len(mResult'.entities) <= Len(TraversalOf(srcAsset))
        /\ Head(stack).node = TraversalOf(srcAsset)[Len(mResult'.entities)]
        /\ SubSeq(mResult'.entities, 1, Len(mResult.entities)) = mResult.entities
        /\ mResult'.entities[Len(mResult'.entities)] \notin SeqRange(mResult.entities) \cup {mResult.root}
        /\ mResult'.nodeMap[Head(stack).node] = mResult'.entities[Len(mResult'.entities)]
        /\ Head(stack).parent = ParentEntity(Head(stack).node)
        /\ mTransformManager'[mResult'.entities[Len(mResult'.entities)]] =
               MulMat(mTransformManager[ParentEntity(Head(stack).node)],
                      srcAsset.nodes[Head(stack).node].matrix)

C18_Complete ==
    (pc = "traverse" /\ stack = <<>>) =>
        /\ Len(mResult.entities) = Len(TraversalOf(srcAsset))
        /\ Cardinality(SeqRange(mResult.entities)) = Len(mResult.entities)
        /\ DOMAIN mResult.nodeMap = SeqRange(TraversalOf(srcAsset))
        /\ \A k \in 1..Len(mResult.entities) :
              mResult.nodeMap[TraversalOf(srcAsset)[k]] = mResult.entities[k]

C18_TraversalIsPreorder == [](C18_Complete) /\ [][C18_Step]_vars

C18_Witness ==
    /\ pc = "traverse" /\ stack = <<>>
    /\ mError
    /\ TraversalOf(srcAsset) = <<1, 3, 2>>
    /\ Len(mResult.entities) = 3
    /\ srcAsset.nodes[1].mesh = 2
    /\ \E k \in 1..Len(primitiveCalls) : ~primitiveCalls[k].ok

====
